---- MODULE Spec2Model ----
(***************************************************************************)
(* The frontmatter preprocessor example (examples/frontmatter-feature.rs): *)
(* the process started by mdbook, either as `<plugin> supports <renderer>` *)
(* or with the [context, book] payload on stdin.                           *)
(*                                                                         *)
(* A string value is a sequence of characters, each written as a string:  *)
(* an ASCII character as itself, and "eszett", "e-acute" and "E-acute" for *)
(* U+00DF, U+00E9 and U+00C9. A frontmatter mapping is a function from a   *)
(* set of keys to string values; a book is a sequence of items, each a     *)
(* Chapter record with nested sub_items or a Separator record.             *)
(***************************************************************************)
EXTENDS Integers, Sequences, FiniteSets, TLC

VARIABLES
    pc,        \* position of the process
    args,      \* std::env::args(), program name first
    mode,      \* which branch main took: "none", "supports" or "transform"
    stdinRead, \* whether the input channel has been read
    input,     \* the book as deserialized from the input channel
    book,      \* the book owned by run, mutated in place
    todo,      \* paths of the items for_each_mut has still to hand to the closure
    visited,   \* paths of the chapters the closure has entered
    runResult, \* "none", "Ok" or "Panic"
    err,       \* the Err handle_preprocessing returns, "none" if none
    stdout,    \* what was written to the output channel, in order
    stderr,    \* what was written to the error channel, in order
    exitCode   \* the process exit code, NotExited while running

vars == <<pc, args, mode, stdinRead, input, book, todo, visited, runResult,
          err, stdout, stderr, exitCode>>

---------------------------------------------------------------------------
(* Bounds of the model *)

\* most nodes (chapters and separators, at any depth) in a nested book
MaxNodes == 3
\* most '-'-separated segments in a generated "date" value
MaxSegs == 4
\* most arguments after the program name
MaxArgs == 2

---------------------------------------------------------------------------
(* Strings *)

\* UTF-8 length of a character, as str::len counts it
Utf8Len(c) == IF c \in {"eszett", "e-acute", "E-acute"} THEN 2 ELSE 1

RECURSIVE StrLen(_)
StrLen(s) == IF s = <<>> THEN 0 ELSE Utf8Len(Head(s)) + StrLen(Tail(s))

\* char::to_uppercase: one character may become several
UpperChar(c) ==
    CASE c = "a" -> <<"A">>
      [] c = "b" -> <<"B">>
      [] c = "g" -> <<"G">>
      [] c = "e-acute" -> <<"E-acute">>
      [] c = "eszett" -> <<"S", "S">>
      [] OTHER -> <<c>>

RECURSIVE ToUppercase(_)
ToUppercase(s) ==
    IF s = <<>> THEN <<>> ELSE UpperChar(Head(s)) \o ToUppercase(Tail(s))

\* str::split('-'): the segments between hyphens, empty ones included
RECURSIVE SplitFrom(_, _)
SplitFrom(s, cur) ==
    IF s = <<>> THEN <<cur>>
    ELSE IF Head(s) = "-" THEN <<cur>> \o SplitFrom(Tail(s), <<>>)
    ELSE SplitFrom(Tail(s), Append(cur, Head(s)))

Split(s) == SplitFrom(s, <<>>)

\* a reformat_date that keeps the segments in their order
ReformatDateKeepOrder(date_str) ==
    LET parts == Split(date_str) IN
    IF Len(parts) = 3 /\ StrLen(parts[1]) = 4 /\ StrLen(parts[2]) = 2
                      /\ StrLen(parts[3]) = 2
    THEN [ok |-> TRUE, val |-> parts[1] \o <<"-">> \o parts[2] \o <<"-">> \o parts[3]]
    ELSE [ok |-> FALSE, val |-> <<>>]

\* reformat_date: Ok(MM-DD-YYYY) or Err("Invalid date format")
ReformatDate(date_str) ==
    LET parts == Split(date_str) IN
    IF Len(parts) = 3
    THEN IF StrLen(parts[1]) = 4 /\ StrLen(parts[2]) = 2 /\ StrLen(parts[3]) = 2
         THEN [ok |-> TRUE,
               val |-> parts[2] \o <<"-">> \o parts[3] \o <<"-">> \o parts[1]]
         ELSE [ok |-> FALSE, val |-> <<>>]
    ELSE [ok |-> FALSE, val |-> <<>>]

---------------------------------------------------------------------------
(* The closure run hands to for_each_mut *)

\* a loop body that leaves the values of the other keys as they were
TransformEntryNoUpper(key, val) ==
    IF key = "date"
    THEN LET r == ReformatDate(ToUppercase(val)) IN
         IF r.ok THEN [ok |-> TRUE, val |-> r.val]
         ELSE [ok |-> FALSE, val |-> ToUppercase(val)]
    ELSE [ok |-> TRUE, val |-> val]

\* one turn of the loop over frontmatter.iter_mut(): the value is uppercased,
\* and under the key "date" reformatted; ok is FALSE where expect panics,
\* val then being the value as the panic leaves it
TransformEntry(key, val) ==
    LET upper == ToUppercase(val) IN
    IF key = "date"
    THEN LET r == ReformatDate(upper) IN
         IF r.ok THEN [ok |-> TRUE, val |-> r.val]
         ELSE [ok |-> FALSE, val |-> upper]
    ELSE [ok |-> TRUE, val |-> upper]

\* the closure reaches the panicking expect on this chapter
ChapterPanics(ch) ==
    \E k \in DOMAIN ch.frontmatter : ~TransformEntry(k, ch.frontmatter[k]).ok

\* a closure that uppercases the chapter's name as well
TransformChapterAndName(ch) ==
    [ch EXCEPT !.frontmatter =
                   [k \in DOMAIN ch.frontmatter |->
                       TransformEntry(k, ch.frontmatter[k]).val],
               !.name = ToUppercase(ch.name)]

\* the chapter after the loop has run over all its entries
TransformChapter(ch) ==
    [ch EXCEPT !.frontmatter =
                   [k \in DOMAIN ch.frontmatter |->
                       TransformEntry(k, ch.frontmatter[k]).val]]

\* the chapter as a panic on its "date" entry leaves it: the entries in
\* done were iterated before "date" and are uppercased, the "date" value is
\* uppercased, the rest is untouched
PartialChapter(ch, done) ==
    [ch EXCEPT !.frontmatter =
                   [k \in DOMAIN ch.frontmatter |->
                       IF k \in done \cup {"date"}
                       THEN ToUppercase(ch.frontmatter[k])
                       ELSE ch.frontmatter[k]]]

---------------------------------------------------------------------------
(* Books *)

RECURSIVE GetItem(_, _)
GetItem(items, path) ==
    IF Len(path) = 1 THEN items[path[1]]
    ELSE GetItem(items[path[1]].sub_items, Tail(path))

RECURSIVE SetItem(_, _, _)
SetItem(items, path, new) ==
    IF Len(path) = 1 THEN [items EXCEPT ![path[1]] = new]
    ELSE [items EXCEPT ![path[1]].sub_items = SetItem(@, Tail(path), new)]

\* the order in which for_each_mut hands the items to the closure:
\* pre-order, a chapter before its sub_items
RECURSIVE WalkOrder(_, _, _)
WalkOrder(items, i, prefix) ==
    IF i > Len(items) THEN <<>>
    ELSE LET p == Append(prefix, i)
             below == IF items[i].kind = "Chapter"
                      THEN WalkOrder(items[i].sub_items, 1, p)
                      ELSE <<>>
         IN <<p>> \o below \o WalkOrder(items, i + 1, prefix)

---------------------------------------------------------------------------
(* The process *)

NotExited == -1

\* exit code of a Rust process whose main thread panicked
PanicExitCode == 101

\* a test that looks only at the number of arguments
IsSupportsRequestByCount(a) == Len(a) > 2

\* args.len() > 2 && args[1] == "supports"
IsSupportsRequest(a) == Len(a) > 2 /\ a[2] = "supports"

\* a predicate that accepts only the renderer it should refuse
SupportsRendererInverted(renderer) == renderer = "not-supported"

\* supports_renderer
SupportsRenderer(renderer) == renderer /= "not-supported"

\* a gate that gives up on a version outside the range
VersionGateStrict(matches) == [warn |-> ~matches, proceed |-> matches]

\* the version check of handle_preprocessing: a warning, then on to run
VersionGate(matches) == [warn |-> ~matches, proceed |-> TRUE]

---------------------------------------------------------------------------
(* Inputs *)

\* segments a generated "date" value is joined from
SegPool ==
    { <<>>, <<"8">>, <<"1", "3">>, <<"2", "0", "2", "4">>, <<"eszett">>,
      <<"a", "b">>, <<"e-acute", "e-acute">> }

RECURSIVE SegJoins(_)
SegJoins(n) ==
    IF n = 1 THEN SegPool
    ELSE { s \o <<"-">> \o t : s \in SegPool, t \in SegJoins(n - 1) }

DateValues == UNION { SegJoins(n) : n \in 1..MaxSegs }

GoodDate == <<"2", "0", "2", "4", "-", "0", "8", "-", "0", "2">>
BadDate == <<"2", "0", "2", "4", "-", "8", "-", "2">>

PlainKeys == {"author", "Date"}
PlainValues == { <<>>, <<"g", "b", " ", "(", "@", "eszett", ")">>, <<"A", "1">>, BadDate }

\* mappings without a "date" key
PlainMappings == UNION { [K -> PlainValues] : K \in SUBSET PlainKeys }

\* mappings of a book that is a single chapter
LeafMappings == { [k \in {"date"} |-> d] : d \in DateValues } \cup PlainMappings

\* mappings of the chapters of a nested book
TreeMappings ==
    { [k \in {} |-> <<>>],
      [k \in {"author", "date"} |->
          IF k = "date" THEN GoodDate ELSE <<"g", "b", " ", "(", "@", "eszett", ")">>],
      [k \in {"date", "title"} |-> IF k = "date" THEN BadDate ELSE <<"a">>] }

Names == { <<"a">> }

Chapter(name, fm, sub) ==
    [kind |-> "Chapter", name |-> name, content |-> <<"#", " ", "a">>,
     frontmatter |-> fm, sub_items |-> sub]

Separator == [kind |-> "Separator"]

\* the item sequences of exactly n nodes, sub_items counted
RECURSIVE Forests(_)
Forests(n) ==
    IF n = 0 THEN { <<>> }
    ELSE { <<Separator>> \o rest : rest \in Forests(n - 1) }
         \cup UNION { { <<Chapter(nm, fm, sub)>> \o rest :
                          nm \in Names, fm \in TreeMappings,
                          sub \in Forests(k), rest \in Forests(n - 1 - k) } :
                      k \in 0..(n - 1) }

\* the nested books, of at most MaxNodes nodes
Books == UNION { Forests(n) : n \in 0..MaxNodes }

\* the books that are a single chapter, with any of the generated mappings
LeafBooks == { <<Chapter(<<"a">>, fm, <<>>)>> : fm \in LeafMappings }

ArgPool == {"supports", "not-supported", ""}

RECURSIVE ArgTails(_)
ArgTails(n) ==
    IF n = 0 THEN { <<>> }
    ELSE { <<a>> \o t : a \in ArgPool, t \in ArgTails(n - 1) }

ArgLists ==
    { <<"frontmatter">> \o t : t \in UNION { ArgTails(n) : n \in 0..MaxArgs } }

\* the two requests mdbook makes
MdbookArgLists == { <<"frontmatter">>, <<"frontmatter", "supports", "html">> }

---------------------------------------------------------------------------
(* Actions *)

InitWith(argLists) ==
    /\ pc = "main"
    /\ args \in argLists
    /\ mode = "none"
    /\ stdinRead = FALSE
    /\ input = <<>>
    /\ book = <<>>
    /\ todo = <<>>
    /\ visited = <<>>
    /\ runResult = "none"
    /\ err = "none"
    /\ stdout = <<>>
    /\ stderr = <<>>
    /\ exitCode = NotExited

\* main: the choice between the two requests mdbook makes
Main ==
    /\ pc = "main"
    /\ IF IsSupportsRequest(args)
       THEN pc' = "handle_supports" /\ mode' = "supports"
       ELSE pc' = "handle_preprocessing" /\ mode' = "transform"
    /\ UNCHANGED <<args, stdinRead, input, book, todo, visited, runResult, err,
                   stdout, stderr, exitCode>>

\* handle_supports: exit 0 if the renderer is supported, 1 if not
HandleSupports ==
    /\ pc = "handle_supports"
    /\ exitCode' = IF SupportsRenderer(args[3]) THEN 0 ELSE 1
    /\ pc' = "exited"
    /\ UNCHANGED <<args, mode, stdinRead, input, book, todo, visited, runResult,
                   err, stdout, stderr>>

\* CmdPreprocessor::parse_input(io::stdin())?, the payload being one of books
ParseInputFrom(books) ==
    /\ pc = "handle_preprocessing"
    /\ stdinRead' = TRUE
    /\ \/ /\ err' = "deserialize"
          /\ pc' = "main_err"
          /\ UNCHANGED <<input, book>>
       \/ \E b \in books :
              /\ input' = b
              /\ book' = b
              /\ pc' = "check_version"
              /\ err' = err
    /\ UNCHANGED <<args, mode, todo, visited, runResult, stdout, stderr, exitCode>>

ParseInput == ParseInputFrom(Books)

ParseLeafInput == ParseInputFrom(LeafBooks)

\* Version::parse(..)?, VersionReq::parse(..)?, the warning, and the call of
\* run, where for_each_mut starts on the book's sections
CheckVersion ==
    /\ pc = "check_version"
    /\ \E versionOk, reqOk, matches \in BOOLEAN :
          IF ~versionOk
          THEN err' = "version_parse" /\ pc' = "main_err"
               /\ UNCHANGED <<todo, stderr>>
          ELSE IF ~reqOk
          THEN err' = "version_req_parse" /\ pc' = "main_err"
               /\ UNCHANGED <<todo, stderr>>
          ELSE /\ stderr' = IF VersionGate(matches).warn
                            THEN Append(stderr, "warning") ELSE stderr
               /\ IF VersionGate(matches).proceed
                  THEN pc' = "run" /\ todo' = WalkOrder(book, 1, <<>>)
                       /\ err' = err
                  ELSE pc' = "main_err" /\ err' = "version_mismatch"
                       /\ todo' = todo
    /\ UNCHANGED <<args, mode, stdinRead, input, book, visited, runResult,
                   stdout, exitCode>>

\* one call of the closure by for_each_mut; the panic of expect unwinds
\* through run, handle_preprocessing and main and ends the process
VisitItem ==
    /\ pc = "run"
    /\ todo /= <<>>
    /\ LET p == Head(todo)
           item == GetItem(book, p)
       IN IF item.kind /= "Chapter"
          THEN /\ todo' = Tail(todo)
               /\ UNCHANGED <<pc, book, visited, runResult, stdout, stderr, exitCode>>
          ELSE IF ChapterPanics(item)
          THEN /\ \E done \in SUBSET (DOMAIN item.frontmatter \ {"date"}) :
                      book' = SetItem(book, p, PartialChapter(item, done))
               /\ stdout' = Append(stdout,
                                   [kind |-> "before", data |-> item.frontmatter])
               /\ visited' = Append(visited, p)
               /\ runResult' = "Panic"
               /\ stderr' = Append(stderr, "panic")
               /\ exitCode' = PanicExitCode
               /\ pc' = "exited"
               /\ todo' = todo
          ELSE /\ book' = SetItem(book, p, TransformChapter(item))
               /\ stdout' = stdout \o
                      <<[kind |-> "before", data |-> item.frontmatter],
                        [kind |-> "after",
                         data |-> TransformChapter(item).frontmatter]>>
               /\ visited' = Append(visited, p)
               /\ todo' = Tail(todo)
               /\ UNCHANGED <<pc, runResult, stderr, exitCode>>
    /\ UNCHANGED <<args, mode, stdinRead, input, err>>

\* run returns Ok(book); serde_json::to_writer(io::stdout(), &processed_book)?
WriteBook ==
    /\ pc = "run"
    /\ todo = <<>>
    /\ runResult' = "Ok"
    /\ \/ /\ stdout' = Append(stdout, [kind |-> "book", data |-> book])
          /\ pc' = "main_ok"
          /\ err' = err
       \/ /\ err' = "serialize"
          /\ pc' = "main_err"
          /\ stdout' = stdout
    /\ UNCHANGED <<args, mode, stdinRead, input, book, todo, visited, stderr,
                   exitCode>>

\* main on Err(e): eprintln and std::process::exit(1)
MainErr ==
    /\ pc = "main_err"
    /\ stderr' = Append(stderr, "error")
    /\ exitCode' = 1
    /\ pc' = "exited"
    /\ UNCHANGED <<args, mode, stdinRead, input, book, todo, visited, runResult,
                   err, stdout>>

\* main on Ok(()): it returns and the process ends with code 0
MainOk ==
    /\ pc = "main_ok"
    /\ exitCode' = 0
    /\ pc' = "exited"
    /\ UNCHANGED <<args, mode, stdinRead, input, book, todo, visited, runResult,
                   err, stdout, stderr>>

Init == InitWith(ArgLists)

Next ==
    \/ Main
    \/ HandleSupports
    \/ ParseInput
    \/ CheckVersion
    \/ VisitItem
    \/ WriteBook
    \/ MainErr
    \/ MainOk

\* the process on any argument list and any nested book
Spec == Init /\ [][Next]_vars

InitLeaf == InitWith(MdbookArgLists)

NextLeaf ==
    \/ Main
    \/ HandleSupports
    \/ ParseLeafInput
    \/ CheckVersion
    \/ VisitItem
    \/ WriteBook
    \/ MainErr
    \/ MainOk

\* the process as mdbook starts it, on a book of one chapter with any of the
\* generated frontmatter mappings
SpecLeaf == InitLeaf /\ [][NextLeaf]_vars

---------------------------------------------------------------------------
(* Properties *)

\* the paths of the chapters of a book
ChapterPaths(b) ==
    LET order == WalkOrder(b, 1, <<>>) IN
    { order[i] : i \in { j \in 1..Len(order) : GetItem(b, order[j]).kind = "Chapter" } }

\* a book with the frontmatter of every chapter taken out
RECURSIVE Skeleton(_)
Skeleton(items) ==
    [i \in 1..Len(items) |->
        IF items[i].kind = "Chapter"
        THEN [kind |-> "Chapter", name |-> items[i].name,
              content |-> items[i].content,
              sub_items |-> Skeleton(items[i].sub_items)]
        ELSE items[i]]

FmBefore(i) == GetItem(input, visited[i]).frontmatter
FmAfter(i) == GetItem(book, visited[i]).frontmatter

\* the i-th visited chapter is the one the closure panicked on
PanickedOn(i) == runResult = "Panic" /\ i = Len(visited)

\* the value has the YYYY-MM-DD layout once uppercased: three segments of
\* 4, 2 and 2 bytes
HasDateLayout(val) ==
    LET parts == Split(ToUppercase(val)) IN
    /\ Len(parts) = 3
    /\ StrLen(parts[1]) = 4
    /\ StrLen(parts[2]) = 2
    /\ StrLen(parts[3]) = 2

Rearranged(val) ==
    LET parts == Split(ToUppercase(val)) IN
    parts[2] \o <<"-">> \o parts[3] \o <<"-">> \o parts[1]

\* C1: a visited chapter whose mapping has no "date" key has, after the
\* closure, the same key set, and under each key the uppercased value.
C1_NoDateUppercasesValuesKeepsKeys ==
    \A i \in 1..Len(visited) :
        "date" \notin DOMAIN FmBefore(i) =>
            /\ ~PanickedOn(i)
            /\ DOMAIN FmAfter(i) = DOMAIN FmBefore(i)
            /\ \A k \in DOMAIN FmBefore(i) : FmAfter(i)[k] = ToUppercase(FmBefore(i)[k])

C1_Witness ==
    /\ pc = "exited"
    /\ runResult = "Ok"
    /\ \E i \in 1..Len(visited) :
          /\ DOMAIN FmBefore(i) = {"author", "Date"}
          /\ FmBefore(i)["author"] = <<"g", "b", " ", "(", "@", "eszett", ")">>
          /\ FmAfter(i)["author"] = <<"G", "B", " ", "(", "@", "S", "S", ")">>
          /\ FmAfter(i)["Date"] = BadDate

\* C2: a visited chapter whose "date" value, uppercased, splits on '-' into
\* three segments of lengths 4, 2 and 2 is transformed without failure and its
\* "date" becomes segment2-segment3-segment1, whatever the segments hold.
C2_DateLayoutIsRearranged ==
    \A i \in 1..Len(visited) :
        ("date" \in DOMAIN FmBefore(i) /\ HasDateLayout(FmBefore(i)["date"])) =>
            /\ ~PanickedOn(i)
            /\ FmAfter(i)["date"] = Rearranged(FmBefore(i)["date"])

C2_Witness ==
    /\ pc = "exited"
    /\ runResult = "Ok"
    /\ \E i \in 1..Len(visited) :
          /\ "date" \in DOMAIN FmBefore(i)
          /\ FmBefore(i)["date"] = <<"2", "0", "2", "4", "-", "1", "3", "-", "a", "b">>
          /\ FmAfter(i)["date"] = <<"1", "3", "-", "A", "B", "-", "2", "0", "2", "4">>

\* C3: a visited chapter whose "date" value has not the layout makes run
\* return Err, with the chapter's mapping as it was.
C3_InvalidDateReturnsErr ==
    \A i \in 1..Len(visited) :
        ("date" \in DOMAIN FmBefore(i) /\ ~HasDateLayout(FmBefore(i)["date"])) =>
            /\ runResult = "Err"
            /\ FmAfter(i) = FmBefore(i)

\* the process failed: handle_preprocessing returned Err or run panicked
Failed == err /= "none" \/ runResult = "Panic"

\* C4: in transform mode the process ends with code 1 and a diagnostic on the
\* error channel on every failure, with code 0 without one, and never with
\* another code.
C4_TransformExitsZeroOrOne ==
    (pc = "exited" /\ mode = "transform") =>
        /\ exitCode \in {0, 1}
        /\ exitCode = 1 <=> Failed
        /\ Failed => stderr /= <<>>

\* C5: nothing but the serialized book is ever written to the output channel,
\* and that once, after the walk.
C5_StdoutHoldsOnlyTheBook ==
    /\ Len(stdout) <= 1
    /\ \A i \in 1..Len(stdout) : stdout[i].kind = "book" /\ todo = <<>>

\* C6: the book keeps its nodes, their order, nesting and every field but the
\* frontmatter throughout, and when run returns the closure has entered every
\* chapter of the input once and nothing else.
C6_WalkKeepsShapeVisitsEachChapterOnce ==
    /\ Skeleton(book) = Skeleton(input)
    /\ \A i \in 1..Len(visited) : DOMAIN FmAfter(i) = DOMAIN FmBefore(i)
    /\ \A i, j \in 1..Len(visited) : visited[i] = visited[j] => i = j
    /\ { visited[i] : i \in 1..Len(visited) } \subseteq ChapterPaths(input)
    /\ runResult = "Ok" =>
          /\ { visited[i] : i \in 1..Len(visited) } = ChapterPaths(input)
          /\ \A p \in ChapterPaths(input) :
                \A k \in DOMAIN GetItem(input, p).frontmatter :
                    GetItem(book, p).frontmatter[k] =
                        TransformEntry(k, GetItem(input, p).frontmatter[k]).val

C6_Witness ==
    /\ runResult = "Ok"
    /\ Len(input) = 2
    /\ input[1].kind = "Chapter"
    /\ Len(input[1].sub_items) = 1
    /\ input[1].sub_items[1].kind = "Chapter"
    /\ input[2].kind = "Separator"
    /\ visited = << <<1>>, <<1, 1>> >>
    /\ book /= input

\* what the process writes and how it ends on a book, the warning left aside
RECURSIVE ExpectedRun(_, _, _)
ExpectedRun(b, paths, out) ==
    IF paths = <<>> THEN [out |-> out, panic |-> FALSE, book |-> b]
    ELSE LET item == GetItem(b, Head(paths)) IN
         IF item.kind /= "Chapter" THEN ExpectedRun(b, Tail(paths), out)
         ELSE IF ChapterPanics(item)
         THEN [out |-> Append(out, [kind |-> "before", data |-> item.frontmatter]),
               panic |-> TRUE, book |-> b]
         ELSE ExpectedRun(SetItem(b, Head(paths), TransformChapter(item)),
                          Tail(paths),
                          out \o <<[kind |-> "before", data |-> item.frontmatter],
                                   [kind |-> "after",
                                    data |-> TransformChapter(item).frontmatter]>>)

ExpectedOutcome(b, serializeFails) ==
    LET r == ExpectedRun(b, WalkOrder(b, 1, <<>>), <<>>) IN
    IF r.panic THEN [stdout |-> r.out, exitCode |-> PanicExitCode]
    ELSE IF serializeFails THEN [stdout |-> r.out, exitCode |-> 1]
    ELSE [stdout |-> Append(r.out, [kind |-> "book", data |-> r.book]),
          exitCode |-> 0]

VersionsParsed == err \notin {"deserialize", "version_parse", "version_req_parse"}

\* C7: once both versions have parsed, what the process writes to the output
\* channel and the code it exits with depend on the book alone (and on whether
\* the write succeeds): they are the same with the warning and without it.
C7_MismatchOnlyWarns ==
    (pc = "exited" /\ mode = "transform" /\ VersionsParsed) =>
        /\ [stdout |-> stdout, exitCode |-> exitCode]
               = ExpectedOutcome(input, err = "serialize")
        /\ \A i \in 1..Len(stderr) : stderr[i] = "warning" => i = 1

C7_Witness ==
    /\ pc = "exited"
    /\ stderr = <<"warning">>
    /\ exitCode = 0
    /\ visited /= <<>>
    /\ stdout[Len(stdout)].kind = "book"
    /\ stdout[Len(stdout)].data /= input

\* C8: in support-check mode the process exits with 1 if the renderer name is
\* "not-supported" and with 0 for any other name, the empty one included.
C8_SupportsExitCode ==
    (pc = "exited" /\ mode = "supports") =>
        exitCode = IF args[3] = "not-supported" THEN 1 ELSE 0

C8_Witness ==
    /\ pc = "exited"
    /\ mode = "supports"
    /\ args[3] = ""
    /\ exitCode = 0

\* C9: the process is in support-check mode exactly if its first argument is
\* "supports" and another argument follows, in transform mode otherwise; in
\* support-check mode it has read no input and written no output.
C9_OneModeByArguments ==
    /\ mode /= "none" =>
          (mode = "supports" <=> (Len(args) >= 3 /\ args[2] = "supports"))
    /\ mode /= "none" => mode \in {"supports", "transform"}
    /\ mode = "supports" => (~stdinRead /\ stdout = <<>> /\ input = <<>>)
    /\ (pc = "exited" /\ mode = "transform") => stdinRead

C9_Witness ==
    /\ pc = "exited"
    /\ mode = "supports"
    /\ Len(args) = 3
    /\ ~stdinRead

\* C10: after a failure of the closure on a chapter no later chapter has been
\* entered, and the output channel holds neither the book nor any entry of a
\* transformed frontmatter mapping.
C10_FailedWalkWritesNothing ==
    runResult = "Panic" =>
        /\ todo /= <<>> /\ visited[Len(visited)] = Head(todo)
        /\ \A i \in 1..Len(stdout) :
              /\ stdout[i].kind /= "book"
              /\ stdout[i].kind = "after" => DOMAIN stdout[i].data = {}

====
